---------------------------- MODULE Spec2Model ----------------------------
(***************************************************************************)
(* whispy: the conversation history of OllamaLLM (src/whispy/llm.py) and   *)
(* the push-to-talk turn loop of run() (src/whispy/app.py).                *)
(*                                                                         *)
(* Strings are sequences of one-character strings, so that str.strip() and *)
(* truthiness are computed; an exception text is a sequence of words.      *)
(*                                                                         *)
(* Two specifications share the state of the OllamaLLM object:             *)
(*   Spec      the object driven through its public methods chat/reset,    *)
(*   LoopSpec  the object driven by run(), one action per blocking point   *)
(*             or collaborator call of the loop.                           *)
(***************************************************************************)
EXTENDS Integers, Sequences, FiniteSets, TLC

\* ------------------------------------------------------------------ bounds
MaxCap == 3         \* max_history ranges over 1..MaxCap
MaxLen == 3         \* chat is not called on a history longer than this
MaxBlocks == 3      \* microphone callbacks per recording
MaxText == 4        \* characters of a text given to clean_for_speech

\* ------------------------------------------------------------- state
VARIABLES
    max_history,    \* OllamaLLM.max_history
    system_prompt,  \* OllamaLLM.system_prompt
    history,        \* OllamaLLM._history
    request,        \* messages= argument of the last ollama_client.chat call
    call,           \* the last call of chat/reset: its argument, the history
                    \* on entry, what the service did and how the call ended
    sample_rate,    \* config.sample_rate
    pc,             \* where run() stands
    stream,         \* Recorder._stream is not None
    frames,         \* Recorder._frames, the size of each block
    audio,          \* audio.size of the array recorder.stop() returned
    text,           \* text returned by stt.transcribe
    response,       \* reply returned by llm.chat
    log,            \* collaborator calls and reports of the current turn
    spoken,         \* the text tts.speak last handed to the speech command
    key             \* the character wait_for_key last returned

llmvars == <<max_history, system_prompt, history, request, call>>
loopvars == <<sample_rate, pc, stream, frames, audio, text, response, log, spoken, key>>
vars == <<max_history, system_prompt, history, request, call,
          sample_rate, pc, stream, frames, audio, text, response, log, spoken, key>>

\* ------------------------------------------------------------- inputs
Empty == <<>>
Prompts == {Empty, <<"S">>}
Msgs == {<<"a">>, <<"b">>}
Replies == {<<"x">>, <<"y">>}

\* Exceptions ollama_client.chat can raise: its class is or is not a
\* RuntimeError, the service was or was not unreachable, and str(e).
ServiceErrors ==
    { [type |-> "ConnectError", runtime |-> FALSE, unreachable |-> TRUE,
       text |-> <<"Connection", "refused">>],
      [type |-> "ConnectTimeout", runtime |-> FALSE, unreachable |-> TRUE,
       text |-> <<"timed", "out">>],
      [type |-> "ResponseError", runtime |-> FALSE, unreachable |-> FALSE,
       text |-> <<"model", "not", "found">>],
      [type |-> "ResponseError", runtime |-> FALSE, unreachable |-> FALSE,
       text |-> <<"lost", "connection", "to", "runner">>],
      [type |-> "RuntimeError", runtime |-> TRUE, unreachable |-> FALSE,
       text |-> <<"Event", "loop", "is", "closed">>] }

NoError == [type |-> "none", runtime |-> FALSE, unreachable |-> FALSE, text |-> Empty]

\* What the completion service does with one request.
Service ==
    { [kind |-> "ok", content |-> r, error |-> NoError] : r \in Replies }
    \cup { [kind |-> "malformed", content |-> Empty, error |-> NoError] }
    \cup { [kind |-> "raise", content |-> Empty, error |-> e] : e \in ServiceErrors }

\* ------------------------------------------------------------- OllamaLLM
Message(role, content) == [role |-> role, content |-> content]

\* Python h[i:]
PySliceFrom(h, i) ==
    LET start == IF i < 0
                 THEN (IF Len(h) + i > 0 THEN Len(h) + i ELSE 0)
                 ELSE (IF i < Len(h) THEN i ELSE Len(h))
    IN SubSeq(h, start + 1, Len(h))

\* list.pop()
Pop(h) == SubSeq(h, 1, Len(h) - 1)

InitHistory(prompt) ==
    IF prompt # Empty THEN <<Message("system", prompt)>> ELSE <<>>

\* Variant of reset that forgets to re-seed the system message.
ResetHistoryNoSeed(prompt) == <<>>

ResetHistory(prompt) ==
    IF prompt # Empty THEN Append(<<>>, Message("system", prompt)) ELSE <<>>

\* Variant of the trim that keeps the head of the list instead of its tail.
TrimKeepOldest(h, cap) ==
    IF Len(h) <= cap THEN h ELSE SubSeq(h, 1, cap)

\* -(cap - 1) is 0 when cap = 1, and h[-0:] is the whole list.
trim_history(h, cap) ==
    IF Len(h) <= cap THEN h
    ELSE IF h # <<>> /\ h[1].role = "system"
         THEN <<h[1]>> \o PySliceFrom(h, -(cap - 1))
         ELSE PySliceFrom(h, -cap)

Lower(w) ==
    CASE w = "Connection" -> "connection"
      [] w = "Event" -> "event"
      [] OTHER -> w

\* "connection" in str(e).lower()
MentionsConnection(e) == \E i \in 1..Len(e.text) : Lower(e.text[i]) = "connection"

CannotConnect ==
    [type |-> "CannotConnect", runtime |-> TRUE, unreachable |-> TRUE,
     text |-> <<"Cannot", "connect", "to", "Ollama">>]

KeyError ==
    [type |-> "KeyError", runtime |-> FALSE, unreachable |-> FALSE,
     text |-> <<"message">>]

\* The exception chat raises when ollama_client.chat raised e.
Raised(e) == IF MentionsConnection(e) THEN CannotConnect ELSE e

\* Variant of the request that is built before the user message is appended.
SentStale(h, message, cap) == h

\* The list passed as messages=: the history after the append and the trim.
Sent(h, message, cap) == trim_history(Append(h, Message("user", message)), cap)

Returned(v) == [kind |-> "return", value |-> v, error |-> NoError]
Raises(e) == [kind |-> "raise", value |-> Empty, error |-> e]

\* How chat ends when the service behaves as svc.
ChatResult(svc) ==
    CASE svc.kind = "raise" -> Raises(Raised(svc.error))
      [] svc.kind = "malformed" -> Raises(KeyError)
      [] OTHER -> Returned(svc.content)

\* chat(message) with the service behaving as svc.
chat(message, svc) ==
    LET sent == Sent(history, message, max_history) IN
    /\ request' = sent
    /\ history' =
         CASE svc.kind = "raise" -> Pop(sent)
           [] svc.kind = "malformed" -> sent
           [] OTHER ->
                trim_history(Append(sent, Message("assistant", svc.content)),
                             max_history)
    /\ call' = [op |-> "chat", message |-> message, before |-> history,
                service |-> svc,
                result |-> ChatResult(svc)]

reset ==
    /\ history' = ResetHistory(system_prompt)
    /\ call' = [op |-> "reset", message |-> Empty, before |-> history,
                service |-> [kind |-> "none", content |-> Empty, error |-> NoError],
                result |-> Returned(Empty)]
    /\ UNCHANGED request

NoCall ==
    [op |-> "init", message |-> Empty, before |-> <<>>,
     service |-> [kind |-> "none", content |-> Empty, error |-> NoError],
     result |-> Returned(Empty)]

LLMInit ==
    /\ max_history \in 1..MaxCap
    /\ history = InitHistory(system_prompt)
    /\ request = <<>>
    /\ call = NoCall

\* ------------------------------------------------------------- Spec
Init ==
    /\ system_prompt \in Prompts
    /\ LLMInit
    /\ sample_rate = 16000
    /\ pc = "NotRunning"
    /\ stream = FALSE
    /\ frames = <<>>
    /\ audio = 0
    /\ text = Empty
    /\ response = Empty
    /\ log = <<>>
    /\ spoken = Empty
    /\ key = "none"

Chat ==
    /\ Len(history) <= MaxLen
    /\ \E message \in Msgs, svc \in Service : chat(message, svc)
    /\ UNCHANGED <<max_history, system_prompt>>
    /\ UNCHANGED loopvars

Reset ==
    /\ reset
    /\ UNCHANGED <<max_history, system_prompt>>
    /\ UNCHANGED loopvars

Next == Chat \/ Reset

Spec == Init /\ [][Next]_vars


\* ------------------------------------------------------------- run()
SampleRates == {8000, 16000}
BlockSizes == {1600, 4799}
Keys == {" ", "q", "Q", "x"}
Blank == {" ", "\n"}

\* The joined segment texts of the whisper model.
RawTexts == {Empty, <<" ">>, <<" ", "a">>, <<"b", " ">>}

\* duration < 0.3, in tenths of a second
MinDurationTenths == 3

RECURSIVE Sum(_)
Sum(s) == IF s = <<>> THEN 0 ELSE Head(s) + Sum(Tail(s))

RECURSIVE LStrip(_)
LStrip(s) == IF s # <<>> /\ Head(s) \in Blank THEN LStrip(Tail(s)) ELSE s

RECURSIVE RStrip(_)
RStrip(s) ==
    IF s # <<>> /\ s[Len(s)] \in Blank THEN RStrip(SubSeq(s, 1, Len(s) - 1)) ELSE s

\* Variant of strip that returns its argument unchanged.
StripNothing(s) == s

\* str.strip()
Strip(s) == RStrip(LStrip(s))

\* STT.transcribe
transcribe(size, raw) == IF size = 0 THEN Empty ELSE Strip(raw)

\* Variant of the duration check that also skips a capture of exactly 0.3 s.
SkipsAtThreshold(size, rate) ==
    size = 0 \/ 10 * size <= MinDurationTenths * rate

\* audio.size == 0, or audio.size / sample_rate < 0.3
Skips(size, rate) ==
    size = 0 \/ 10 * size < MinDurationTenths * rate

\* Variant of the inner loop that also leaves Recording on the quit key.
StopsRecordingOrQuit(k) == k \in {" ", "q", "Q"}

\* if k == " ": break
StopsRecording(k) == k = " "

\* except RuntimeError
Caught(e) == e.runtime

\* Code points matched by _EMOJI_RE: an emoticon and variation selector-16.
EmojiChars == {"U+1F60A", "U+FE0F"}

\* _EMOJI_RE.sub("", text)
RemoveEmoji(t) == SelectSeq(t, LAMBDA c : c \notin EmojiChars)

\* re.sub(r"  +", " ", text)
RECURSIVE CollapseSpaces(_)
CollapseSpaces(t) ==
    IF Len(t) < 2 THEN t
    ELSE IF t[1] = " " /\ t[2] = " " THEN CollapseSpaces(Tail(t))
         ELSE <<t[1]>> \o CollapseSpaces(Tail(t))

clean_for_speech(t) == Strip(CollapseSpaces(RemoveEmoji(t)))

\* Exceptions tts.speak can raise: subprocess.run(check=True), Popen.
TtsErrors ==
    { [type |-> "CalledProcessError", runtime |-> FALSE, unreachable |-> FALSE,
       text |-> <<"say", "returned", "non-zero", "exit", "status">>],
      [type |-> "FileNotFoundError", runtime |-> FALSE, unreachable |-> FALSE,
       text |-> <<"No", "such", "file", "piper">>] }

\* Variant of the handler around tts.speak that catches RuntimeError only.
CaughtRuntimeOnly(e) == e.runtime

\* except Exception
CaughtException(e) == TRUE

LoopInit ==
    /\ system_prompt = <<"S">>
    /\ LLMInit
    /\ sample_rate \in SampleRates
    /\ pc = "Idle"
    /\ stream = FALSE
    /\ frames = <<>>
    /\ audio = 0
    /\ text = Empty
    /\ response = Empty
    /\ log = <<>>
    /\ spoken = Empty
    /\ key = "none"

\* wait_for_key() returned in the outer loop.
IdleKey ==
    /\ pc = "Idle"
    /\ \E k \in Keys :
         /\ key' = k
         /\ IF k \in {"q", "Q"}
            THEN /\ pc' = "Stopped"
                 /\ UNCHANGED <<stream, frames, log>>
            ELSE IF k # " "
            THEN UNCHANGED <<pc, stream, frames, log>>
            ELSE /\ frames' = <<>>
                 /\ stream' = TRUE
                 /\ log' = <<"start">>
                 /\ pc' = "Recording"
    /\ UNCHANGED <<sample_rate, audio, text, response, spoken>>
    /\ UNCHANGED llmvars

\* Recorder._callback on the audio thread.
Callback ==
    /\ stream
    /\ Len(frames) < MaxBlocks
    /\ \E n \in BlockSizes : frames' = Append(frames, n)
    /\ UNCHANGED <<sample_rate, pc, stream, audio, text, response, log, spoken, key>>
    /\ UNCHANGED llmvars

\* wait_for_key() returned in the inner loop; on SPACE recorder.stop() and
\* the two checks of the captured array.
RecordingKey ==
    /\ pc = "Recording"
    /\ \E k \in Keys :
         /\ key' = k
         /\ IF ~StopsRecording(k)
            THEN UNCHANGED <<pc, stream, audio, log>>
            ELSE LET size == Sum(frames) IN
                 /\ stream' = FALSE
                 /\ audio' = size
                 /\ IF size = 0
                    THEN /\ log' = log \o <<"stop", "no audio captured">>
                         /\ pc' = "Idle"
                    ELSE IF Skips(size, sample_rate)
                    THEN /\ log' = log \o <<"stop", "too short">>
                         /\ pc' = "Idle"
                    ELSE /\ log' = Append(log, "stop")
                         /\ pc' = "Transcribing"
    /\ UNCHANGED <<sample_rate, frames, text, response, spoken>>
    /\ UNCHANGED llmvars

\* stt.transcribe and the silence check.
Transcribe ==
    /\ pc = "Transcribing"
    /\ \/ /\ log' = Append(log, "transcribe")
          /\ pc' = "Crashed"
          /\ UNCHANGED text
       \/ \E raw \in RawTexts :
            /\ text' = transcribe(audio, raw)
            /\ IF Strip(text') = Empty
               THEN /\ log' = log \o <<"transcribe", "silence">>
                    /\ pc' = "Idle"
               ELSE /\ log' = Append(log, "transcribe")
                    /\ pc' = "AwaitingCompletion"
    /\ UNCHANGED <<sample_rate, stream, frames, audio, response, spoken, key>>
    /\ UNCHANGED llmvars

\* llm.chat inside try / except RuntimeError.
Complete ==
    /\ pc = "AwaitingCompletion"
    /\ Len(history) <= MaxLen
    /\ \E svc \in Service :
         /\ chat(text, svc)
         /\ LET r == ChatResult(svc) IN
            IF r.kind = "raise"
            THEN IF Caught(r.error)
                 THEN /\ log' = log \o <<"chat", "error">>
                      /\ pc' = "Idle"
                      /\ UNCHANGED response
                 ELSE /\ log' = Append(log, "chat")
                      /\ pc' = "Crashed"
                      /\ UNCHANGED response
            ELSE /\ log' = Append(log, "chat")
                 /\ response' = r.value
                 /\ pc' = "Speaking"
    /\ UNCHANGED <<max_history, system_prompt>>
    /\ UNCHANGED <<sample_rate, stream, frames, audio, text, spoken, key>>

\* tts.speak inside try / except Exception.
Speak ==
    /\ pc = "Speaking"
    /\ spoken' = clean_for_speech(response)
    /\ \/ /\ log' = Append(log, "speak")
          /\ pc' = "Idle"
       \/ \E e \in TtsErrors :
            /\ spoken' # Empty
            /\ IF CaughtException(e)
               THEN /\ log' = log \o <<"speak", "tts error">>
                    /\ pc' = "Idle"
               ELSE /\ log' = Append(log, "speak")
                    /\ pc' = "Crashed"
    /\ UNCHANGED <<sample_rate, stream, frames, audio, text, response, key>>
    /\ UNCHANGED llmvars

LoopNext == IdleKey \/ Callback \/ RecordingKey \/ Transcribe \/ Complete \/ Speak

LoopSpec == LoopInit /\ [][LoopNext]_vars

\* ------------------------------------------------------------- tts.speak
\* tts.speak applied to every text of at most MaxText characters.
Chars == {"a", " ", "\n", "*", "#", "-", ".", "1", "U+1F60A"}

RECURSIVE TextsUpTo(_)
TextsUpTo(n) ==
    IF n = 0 THEN {Empty}
    ELSE LET shorter == TextsUpTo(n - 1) IN
         shorter \cup {Append(t, c) : t \in shorter, c \in Chars}

SpeakInit ==
    /\ system_prompt = <<"S">>
    /\ max_history = 1
    /\ history = InitHistory(system_prompt)
    /\ request = <<>>
    /\ call = NoCall
    /\ sample_rate = 16000
    /\ pc = "Speaking"
    /\ stream = FALSE
    /\ frames = <<>>
    /\ audio = 0
    /\ text = Empty
    /\ response \in TextsUpTo(MaxText)
    /\ log = <<>>
    /\ spoken = Empty
    /\ key = "none"

SpeakSpec == SpeakInit /\ [][Speak]_vars

\* ------------------------------------------------------------- claims
ChatRaised == call.op = "chat" /\ call.service.kind = "raise"
ChatSucceeded == call.op = "chat" /\ call.service.kind = "ok"
Last(h) == h[Len(h)]
SystemCount(h) == Cardinality({i \in 1..Len(h) : h[i].role = "system"})

\* C1: a chat call whose completion-service request fails leaves the history
\* exactly equal to the history before the call, also when the history was
\* at capacity on entry.
C1_Rollback == ChatRaised => history = call.before

\* C2: for every capacity max_history >= 1, with or without a system prompt,
\* the history and the message list submitted to the service never hold more
\* than max_history messages.
C2_Capacity == Len(history) <= max_history /\ Len(request) <= max_history

\* C3: the history holds at most one system message; with a configured
\* prompt it is at index 0 with the configured content, without one the
\* history holds no system message.
C3_PinnedSystem ==
    /\ SystemCount(history) <= 1
    /\ system_prompt # Empty =>
          history # <<>> /\ history[1] = Message("system", system_prompt)
    /\ system_prompt = Empty => SystemCount(history) = 0

\* C5: a malformed response makes chat fail and the appended user message
\* is removed, so the history equals the history before the call.
C5_MalformedRolledBack ==
    (call.op = "chat" /\ call.service.kind = "malformed") =>
        call.result.kind = "raise" /\ history = call.before

\* C6: chat raises the cannot-connect error for every failure that is an
\* unreachable service, and a different error for every other failure.
C6_Distinguishable ==
    ChatRaised =>
        (call.result.error = CannotConnect <=> call.service.error.unreachable)

\* C7: reset() leaves the history equal to the state initialization
\* produces: the configured system message alone, or the empty history.
C7_ResetRestoresSeed ==
    call.op = "reset" => history = InitHistory(system_prompt)

C7_Witness ==
    /\ call.op = "reset"
    /\ system_prompt # Empty
    /\ max_history >= 2
    /\ Len(call.before) = max_history
    /\ history = <<Message("system", system_prompt)>>

\* C8: a chat whose request succeeds returns the content the service
\* supplied, and the last message of the history is the assistant message
\* with that content.
C8_SuccessfulRound ==
    ChatSucceeded =>
        /\ call.result = Returned(call.service.content)
        /\ history # <<>>
        /\ Last(history) = Message("assistant", call.service.content)

C8_Witness ==
    /\ ChatSucceeded
    /\ Len(call.before) >= max_history
    /\ Len(history) = max_history
    /\ Last(history) = Message("assistant", call.service.content)

\* C9: the message list submitted to the service ends with the user message
\* carrying the argument of chat, and starts with the system message when a
\* prompt is configured.
C9_RequestSnapshot ==
    call.op = "chat" =>
        /\ request # <<>>
        /\ Last(request) = Message("user", call.message)
        /\ system_prompt # Empty =>
              request[1] = Message("system", system_prompt)

C9_Witness ==
    /\ call.op = "chat"
    /\ system_prompt # Empty
    /\ Len(call.before) >= max_history
    /\ Len(request) = max_history
    /\ Last(request) = Message("user", call.message)

InLog(e) == \E i \in 1..Len(log) : log[i] = e

\* C4: whenever the chat call of a turn fails, with the cannot-connect
\* error or with any other failure, the loop reports the error, does not
\* call speech output in that turn and is back in Idle (from where only the
\* quit key stops it); it never ends because of the failure.
C4_SurvivesChatFailure ==
    (InLog("chat") /\ call.result.kind = "raise") =>
        /\ pc \in {"Idle", "Stopped"}
        /\ InLog("error")
        /\ ~InLog("speak")

\* C10: in a turn whose stopped capture has no samples or lasts less than
\* 0.3 seconds, transcription, chat and speech output are not called and
\* the loop is back in Idle; a capture with samples that lasts at least
\* 0.3 seconds is handed to transcription.
C10_ShortCaptureSkipped ==
    LET short == audio = 0 \/ 10 * audio < 3 * sample_rate IN
    /\ (InLog("stop") /\ short) =>
          /\ ~InLog("transcribe") /\ ~InLog("chat") /\ ~InLog("speak")
          /\ pc \in {"Idle", "Stopped"}
    /\ (InLog("stop") /\ ~short) =>
          pc = "Transcribing" \/ InLog("transcribe")

C10_Witness ==
    /\ log = <<"start", "stop", "too short">>
    /\ audio > 0
    /\ 10 * audio < 3 * sample_rate
    /\ pc = "Idle"

AllBlank(t) == \A i \in 1..Len(t) : t[i] = " "

\* C11: whenever transcription returns a text that is empty or holds only
\* whitespace, the turn ends in Idle with the silence notice and no error
\* report, chat and speech output are not called, and the history, the last
\* request and the last chat call are left as they were.
C11_SilenceSkipped ==
    /\ [](InLog("silence") =>
            /\ ~InLog("chat") /\ ~InLog("speak") /\ ~InLog("error")
            /\ pc \in {"Idle", "Stopped"})
    /\ [][(pc = "Transcribing" /\ pc' # "Crashed" /\ AllBlank(text')) =>
            /\ pc' = "Idle"
            /\ log' = log \o <<"transcribe", "silence">>
            /\ UNCHANGED <<history, request, call>>]_vars

C11_Witness ==
    /\ log = <<"start", "stop", "transcribe", "silence">>
    /\ pc = "Idle"
    /\ AllBlank(text)
    /\ call.op = "chat"
    /\ Len(history) >= 2

HasPair(t, c, d) == \E i \in 1..(Len(t) - 1) : t[i] = c /\ t[i + 1] = d

\* C13: for every input, the text clean_for_speech returns holds no emoji
\* code point, no * of a markdown emphasis marker, no # at the start of a
\* line and no two consecutive periods, and the text inside emphasis markers
\* and the header text are kept.
C13_MarkerFree ==
    InLog("speak") =>
        /\ \A i \in 1..Len(spoken) : spoken[i] \notin {"U+1F60A", "U+FE0F", "*"}
        /\ spoken = Empty \/ spoken[1] # "#"
        /\ ~HasPair(spoken, "\n", "#")
        /\ ~HasPair(spoken, ".", ".")
        /\ response = <<"*", "a", "*">> => spoken = <<"a">>
        /\ response = <<"#", " ", "a">> => spoken = <<"a">>

\* C14: for an input that is one bulleted item (- text) or one numbered item
\* (N. text), clean_for_speech returns the item text without the marker and
\* ending with exactly one period.
C14_ListItems ==
    InLog("speak") =>
        /\ response = <<"-", " ", "a">> => spoken = <<"a", ".">>
        /\ response = <<"-", " ", "a", "a">> => spoken = <<"a", "a", ".">>
        /\ response = <<"-", " ", "a", ".">> => spoken = <<"a", ".">>
        /\ response = <<"1", ".", " ", "a">> => spoken = <<"a", ".">>

LastN(h, n) == SubSeq(h, Len(h) - n + 1, Len(h))

NewestKept(h, cap) ==
    IF Len(h) <= cap THEN h
    ELSE IF h[1].role = "system" THEN <<h[1]>> \o LastN(h, cap - 1)
    ELSE LastN(h, cap)

\* C15: for every capacity >= 1, the trim after an append leaves a list
\* within capacity unchanged, and turns a longer one into the pinned system
\* message followed by the newest capacity-1 messages in order, or, with no
\* system message at index 0, into the newest capacity messages in order.
C15_TrimKeepsNewest ==
    call.op = "chat" =>
        /\ request =
             NewestKept(Append(call.before, Message("user", call.message)),
                        max_history)
        /\ call.service.kind = "ok" =>
             history =
               NewestKept(Append(request,
                                 Message("assistant", call.service.content)),
                          max_history)

\* C16: a quit key read in Idle ends the loop in Stopped, from where no
\* further step is taken; any key other than start or quit leaves the loop
\* in Idle with no capture; in Recording the quit key and every key other
\* than stop leave the capture active and the turn untouched, only the stop
\* key ends Recording, and the capture is stopped before transcription,
\* chat or speech output run.
C16_QuitOnlyInIdle ==
    /\ [][pc = "Idle" =>
            /\ key' \in {"q", "Q"} =>
                  pc' = "Stopped" /\ UNCHANGED <<stream, frames, log, llmvars>>
            /\ key' = " " => pc' = "Recording" /\ stream' /\ log' = <<"start">>
            /\ key' \notin {" ", "q", "Q"} =>
                  pc' = "Idle" /\ UNCHANGED <<stream, frames, log, llmvars>>]_vars
    /\ [][pc = "Stopped" => FALSE]_vars
    /\ [][pc = "Recording" =>
            /\ key' # " " =>
                  /\ pc' = "Recording" /\ stream'
                  /\ UNCHANGED <<audio, log, llmvars>>
                  /\ Len(frames') >= Len(frames)
                  /\ SubSeq(frames', 1, Len(frames)) = frames
            /\ pc' # "Recording" =>
                  /\ key' = " " /\ ~stream'
                  /\ log'[1] = "start" /\ log'[2] = "stop"
                  /\ pc' \in {"Idle", "Transcribing"}]_vars
    /\ [](/\ stream <=> pc = "Recording"
          /\ pc = "Stopped" => key \in {"q", "Q"}
          /\ (InLog("transcribe") \/ InLog("chat") \/ InLog("speak")) =>
                Len(log) >= 2 /\ log[1] = "start" /\ log[2] = "stop")

C16_Witness ==
    /\ pc = "Recording"
    /\ key \in {"q", "Q"}
    /\ stream
    /\ frames # <<>>
    /\ log = <<"start">>

=============================================================================
